---- MODULE Spec2Model ----
(***************************************************************************)
(* Model of traefik-pihole-dns-sync (src/main.go): the process main(), the *)
(* reconciliation pass syncDNS() and its helpers, the cron trigger, and    *)
(* the Pi-hole hosts store the pass talks to.                              *)
(*                                                                         *)
(* Strings are sequences of one-character strings, so that formatting,     *)
(* escaping, splitting and matching are computed and not assumed.          *)
(*                                                                         *)
(* Spec is the process in every run mode, with the cron's passes.          *)
(* SpecExtract and SpecRecords are single-pass runs of the same process    *)
(* over larger sets of routing tables and of hosts arrays.                 *)
(***************************************************************************)
EXTENDS Integers, Sequences, FiniteSets, TLC

VARIABLES env, flags, config, once, mainPc, passes, store, created, started,
          syncFailed

vars == <<env, flags, config, once, mainPc, passes, store, created, started,
          syncFailed>>

\* ------------------------------------------------------------------ bounds

\* Passes one process run starts: the initial pass and the cron's passes.
MaxPasses == 3

\* Routers in a routing table of the extraction runs (SpecExtract).
MaxRoutes == 2

\* Lines in the hosts array the manager starts with in the runs that read
\* the existing records (SpecRecords).
MaxLines == 2

\* The goroutines that run syncDNS: the model gives the process two, the
\* fewest with which two passes can be in progress at once. Goroutine 1 is
\* the main goroutine while it runs the initial pass; after that both stand
\* for goroutines the cron starts.
Passes == {1, 2}

\* ----------------------------------------------------------------- strings

Range(s) == {s[i] : i \in 1..Len(s)}

\* unicode.IsSpace on the characters of the model's alphabet
IsSpace(c) == c \in {" ", "\t"}

\* strings.Fields: the maximal runs of non-space characters
RECURSIVE FieldsFrom(_, _, _)
FieldsFrom(s, i, cur) ==
    IF i > Len(s)
    THEN (IF cur = <<>> THEN <<>> ELSE <<cur>>)
    ELSE IF IsSpace(s[i])
         THEN (IF cur = <<>> THEN <<>> ELSE <<cur>>) \o FieldsFrom(s, i + 1, <<>>)
         ELSE FieldsFrom(s, i + 1, Append(cur, s[i]))

Fields(s) == FieldsFrom(s, 1, <<>>)

\* strings.Split(s, sep) for a one-character separator
RECURSIVE SplitFrom(_, _, _, _)
SplitFrom(s, sep, i, cur) ==
    IF i > Len(s)
    THEN <<cur>>
    ELSE IF s[i] = sep
         THEN <<cur>> \o SplitFrom(s, sep, i + 1, <<>>)
         ELSE SplitFrom(s, sep, i + 1, Append(cur, s[i]))

Split(s, sep) == SplitFrom(s, sep, 1, <<>>)

\* strings.Trim(s, cutset) / strings.TrimSpace: drop leading and trailing
\* characters that satisfy the cut
RECURSIVE TrimLeft(_, _)
TrimLeft(s, cut) ==
    IF s # <<>> /\ s[1] \in cut THEN TrimLeft(Tail(s), cut) ELSE s

RECURSIVE TrimRight(_, _)
TrimRight(s, cut) ==
    IF s # <<>> /\ s[Len(s)] \in cut
    THEN TrimRight(SubSeq(s, 1, Len(s) - 1), cut)
    ELSE s

Trim(s, cut) == TrimRight(TrimLeft(s, cut), cut)

TrimSpace(s) == Trim(s, {" ", "\t"})

\* true when pat occurs in s at position i
HasAt(s, i, pat) ==
    /\ i + Len(pat) - 1 <= Len(s)
    /\ SubSeq(s, i, i + Len(pat) - 1) = pat

\* position of the first character from i on that is c, or Len(s) + 1
RECURSIVE IndexFrom(_, _, _)
IndexFrom(s, i, c) ==
    IF i > Len(s) \/ s[i] = c THEN i ELSE IndexFrom(s, i + 1, c)

\* the backtick character, written \x60 as in the source's pattern
Backtick == "\\x60"

\* the opening of the pattern Host\(\x60
HostOpen == <<"H", "o", "s", "t", "(", Backtick>>

\* hostRegex.FindAllStringSubmatch(rule, -1) for Host\(\x60([^\x60]+)\x60\):
\* the capture groups of the leftmost non-overlapping matches, in order.
\* A match at i is HostOpen, the non-empty run of characters up to the next
\* backtick, that backtick and a closing parenthesis.
RECURSIVE FindAllFrom(_, _)
FindAllFrom(rule, i) ==
    IF i > Len(rule)
    THEN <<>>
    ELSE LET b == i + Len(HostOpen)
             e == IndexFrom(rule, b, Backtick)
         IN IF /\ HasAt(rule, i, HostOpen)
               /\ e > b
               /\ HasAt(rule, e, <<Backtick, ")">>)
            THEN <<SubSeq(rule, b, e - 1)>> \o FindAllFrom(rule, e + 2)
            ELSE FindAllFrom(rule, i + 1)

FindAllStringSubmatch(rule) == FindAllFrom(rule, 1)

\* the inner loop of extractHostnames: the non-empty trimmed parts of one
\* captured group, split at commas
HostsOfMatch(m) ==
    {Trim(TrimSpace(Split(m, ",")[k]), {Backtick}) : k \in 1..Len(Split(m, ","))} \ {<<>>}

RuleHostnames(rule) ==
    UNION {HostsOfMatch(FindAllStringSubmatch(rule)[k]) :
               k \in 1..Len(FindAllStringSubmatch(rule))}

\* ------------------------------------------------------------ input data

\* config.TraefikHostIP (TRAEFIK_HOST_IP) and an address someone else set
TargetIP == <<"9">>
OtherIP == <<"5">>

HostA == <<"a">>
HostB == <<"b">>

\* rule strings of the routing table
RuleHostA == HostOpen \o <<"a", Backtick, ")">>
RuleHostB == HostOpen \o <<"b", Backtick, ")">>
RuleHostAOrB == RuleHostA \o <<" ", "|", "|", " ">> \o RuleHostB
RulePath == <<"P", "a", "t", "h", "(", Backtick, "/", Backtick, ")">>

\* TraefikRouter (the fields the program reads)
Router(name, status, rule) == [Name |-> name, Status |-> status, Rule |-> rule]

\* routing tables the Traefik API may hold, as sequences of routers
RouteTables ==
    { <<>>,
      <<Router("r1", "disabled", RuleHostA)>>,
      <<Router("r1", "enabled", RulePath)>>,
      <<Router("r1", "enabled", RuleHostA)>>,
      <<Router("r1", "enabled", RuleHostAOrB), Router("r2", "disabled", RuleHostB)>> }

\* the two encodings of one routing table: a JSON array of routers, and a
\* JSON object keyed by router name
ArrayBody(t) == [shape |-> "array", items |-> t]
ObjectBody(t) ==
    [shape |-> "object",
     members |-> [n \in {t[i].Name : i \in 1..Len(t)} |->
                     (CHOOSE r \in Range(t) : r.Name = n)]]

\* http.Get(apiURL), line 206, goes through http.DefaultClient, whose Timeout
\* is zero: a peer that accepts the request and never answers leaves the call
\* waiting. NoAnswer stands for that peer.
NoAnswer == [status |-> -1, body |-> [shape |-> "none"]]

\* responses of GET TRAEFIK_API_URL: status 0 stands for a transport error
TraefikResponses ==
    {[status |-> 0, body |-> [shape |-> "none"]],
     [status |-> 500, body |-> [shape |-> "none"]],
     [status |-> 200, body |-> [shape |-> "none"]]}
    \cup {[status |-> 200, body |-> ArrayBody(t)] : t \in RouteTables}
    \cup {[status |-> 200, body |-> ObjectBody(t)] : t \in RouteTables}

\* "IP HOSTNAME" lines and what else a hosts array may hold
Line(ip, hostname) == ip \o <<" ">> \o hostname

\* hosts arrays the DNS manager may hold when the process starts
InitialStores ==
    { <<>>,
      <<<<"#">>, Line(OtherIP, HostA)>> }

\* The three calls to the DNS manager go through an http.Client with
\* Timeout: 10 * time.Second (lines 285, 341, 391): a peer that does not
\* answer makes client.Do return an error, which is the status 0 below.
\*
\* responses of POST /api/auth: json tells whether the body decodes, sid 0
\* stands for the empty session id, fresh is the id the manager issues (a
\* session id is issued once: the model takes the number of the pass)
AuthResponses(fresh) ==
    {[status |-> 0, json |-> FALSE, sid |-> 0],
     [status |-> 401, json |-> TRUE, sid |-> 0],
     [status |-> 200, json |-> FALSE, sid |-> 0],
     [status |-> 200, json |-> TRUE, sid |-> 0],
     [status |-> 200, json |-> TRUE, sid |-> fresh]}

\* responses of GET /api/config/dns when the manager holds hosts
DnsConfigResponses(hosts) ==
    {[status |-> 0, json |-> FALSE, hosts |-> <<>>],
     [status |-> 401, json |-> TRUE, hosts |-> <<>>],
     [status |-> 200, json |-> FALSE, hosts |-> <<>>],
     [status |-> 200, json |-> TRUE, hosts |-> hosts]}

\* status codes of PUT /api/config/dns/hosts/<entry>, 0 a transport error
PutStatuses == {0, 200, 201, 204, 400}

RunModes == {"", "once", "dry-run", "scheduled-dry-run"}
LogLevels == {"info", "debug"}

\* the environment variables loadConfig requires, lines 123-131
Required == {"PIHOLE_URL", "PIHOLE_PASSWORD", "TRAEFIK_HOST_IP"}

\* values of SYNC_INTERVAL: the default, which the cron parses, and one it
\* does not
SyncIntervals == {"@every 5m", "often"}

\* ------------------------------------------------------- the DNS manager

\* EscapeChar with the query escaping (url.QueryEscape) in place of the path
\* escaping: a space becomes a plus sign, which the manager does not decode
EscapeChar_Query(c) ==
    IF c = " " THEN <<"+">>
    ELSE IF c = "\t" THEN <<"%", "0", "9">>
    ELSE IF c = "%" THEN <<"%", "2", "5">>
    ELSE <<c>>

\* url.PathEscape on the characters of the model's alphabet
EscapeChar(c) ==
    IF c = " " THEN <<"%", "2", "0">>
    ELSE IF c = "\t" THEN <<"%", "0", "9">>
    ELSE IF c = "%" THEN <<"%", "2", "5">>
    ELSE <<c>>

RECURSIVE PathEscape(_)
PathEscape(s) ==
    IF s = <<>> THEN <<>> ELSE EscapeChar(s[1]) \o PathEscape(Tail(s))

\* the manager's decoding of a path segment
UnescapeCode(hi, lo) ==
    IF <<hi, lo>> = <<"2", "0">> THEN " "
    ELSE IF <<hi, lo>> = <<"0", "9">> THEN "\t"
    ELSE "%"

RECURSIVE PathUnescape(_)
PathUnescape(s) ==
    IF s = <<>> THEN <<>>
    ELSE IF s[1] = "%" /\ Len(s) >= 3
         THEN <<UnescapeCode(s[2], s[3])>> \o PathUnescape(SubSeq(s, 4, Len(s)))
         ELSE <<s[1]>> \o PathUnescape(Tail(s))

\* the manager accepted the request
Accepted(status) == status \in {200, 201, 204}

\* the manager's handling of PUT /api/config/dns/hosts/<entry>: on a success
\* status the entry is in the hosts array afterwards, added at the end when
\* it was not there; on any other outcome the array is unchanged
PiHolePut(hosts, entry, status) ==
    IF Accepted(status) /\ PathUnescape(entry) \notin Range(hosts)
    THEN Append(hosts, PathUnescape(entry))
    ELSE hosts

\* ---------------------------------------------------------------- main()

\* loadConfig, lines 113-120: the Config built from the environment
loadConfig(e) ==
    [RunMode |-> e.RunMode, LogLevel |-> e.LogLevel,
     SyncInterval |-> e.SyncInterval,
     TraefikHostIP |-> IF "TRAEFIK_HOST_IP" \in e.Set THEN TargetIP ELSE <<>>,
     DryRun |-> FALSE]

\* loadConfig, lines 122-131: log.Fatal when a required variable is empty
ConfigFatal(e) == \E v \in Required : v \notin e.Set

\* c.AddFunc(config.SyncInterval, ...), lines 95-103: TRUE when the cron
\* cannot parse the interval and returns an error
AddFuncFails(interval) == interval # "@every 5m"

\* ConfigDryRun without the case "scheduled-dry-run" of lines 68-69
ConfigDryRun_NoScheduledCase(runMode, f) ==
    IF runMode = "dry-run" THEN TRUE ELSE f.dryRun

\* main, lines 61-75: RUN_MODE first, then the --dry-run flag
ConfigDryRun(runMode, f) ==
    IF runMode \in {"dry-run", "scheduled-dry-run"} THEN TRUE ELSE f.dryRun

\* main, lines 54-70: *once after flag parsing and the RUN_MODE switch
OnceSwitch(runMode, f) ==
    IF runMode \in {"dry-run", "once"} THEN TRUE ELSE f.once

\* AfterSync with log.Fatalf in place of the log.Printf of line 84: a failed
\* pass ends the process
AfterSync_FatalOnError(onceSwitch, interval, err) ==
    IF err # "" THEN "fatal"
    ELSE IF onceSwitch THEN "exited"
    ELSE IF AddFuncFails(interval) THEN "fatal"
    ELSE "scheduled"

\* main, lines 83-109, once syncDNS has returned err: the error is logged
\* and nothing else; the process returns when *once is set, and otherwise
\* builds the cron, where a rejected interval is fatal, and starts it
AfterSync(onceSwitch, interval, err) ==
    IF onceSwitch THEN "exited"
    ELSE IF AddFuncFails(interval) THEN "fatal"
    ELSE "scheduled"

\* ------------------------------------------------------------- syncDNS()

EmptyRecords == [h \in {} |-> <<>>]

\* a pass (one call of syncDNS) that has not started. calls holds the network
\* calls of the pass that have returned, in order. seq numbers the passes
\* in the order they start; seen is a history field: the hostnames whose
\* creation the manager had accepted when the pass read the existing records
\* (the history variable created holds them).
IdlePass ==
    [pc |-> "idle", seq |-> 0, seen |-> {}, sid |-> 0, routers |-> <<>>, hostnames |-> <<>>,
     existingRecords |-> EmptyRecords, idx |-> 0, added |-> 0,
     err |-> "", calls |-> <<>>, log |-> <<>>]

Call(method, path, sid, entry, resp) ==
    [method |-> method, path |-> path, sid |-> sid, entry |-> entry, resp |-> resp]

LogLine(msg, host, n) == [msg |-> msg, host |-> host, n |-> n]

\* authenticatePiHoleV6 without the check of lines 371-373 for an empty
\* session id
authenticatePiHoleV6_NoSidCheck(resp) ==
    IF resp.status = 0 THEN [err |-> TRUE, sid |-> 0]
    ELSE IF resp.status # 200 THEN [err |-> TRUE, sid |-> 0]
    ELSE IF ~resp.json THEN [err |-> TRUE, sid |-> 0]
    ELSE [err |-> FALSE, sid |-> resp.sid]

\* authenticatePiHoleV6 with the session id kept in a package variable: the
\* id the first authentication of the process obtained is returned by every
\* later one
authenticatePiHoleV6_CachedSid(resp) ==
    IF resp.status = 0 THEN [err |-> TRUE, sid |-> 0]
    ELSE IF resp.status # 200 THEN [err |-> TRUE, sid |-> 0]
    ELSE IF ~resp.json THEN [err |-> TRUE, sid |-> 0]
    ELSE IF resp.sid = 0 THEN [err |-> TRUE, sid |-> 0]
    ELSE [err |-> FALSE, sid |-> 1]

\* authenticatePiHoleV6, lines 348-375: what it returns for a response
authenticatePiHoleV6(resp) ==
    IF resp.status = 0 THEN [err |-> TRUE, sid |-> 0]
    ELSE IF resp.status # 200 THEN [err |-> TRUE, sid |-> 0]
    ELSE IF ~resp.json THEN [err |-> TRUE, sid |-> 0]
    ELSE IF resp.sid = 0 THEN [err |-> TRUE, sid |-> 0]
    ELSE [err |-> FALSE, sid |-> resp.sid]

\* ArrayToMap keyed by a field that is not unique among the routers, the
\* status
RECURSIVE ArrayToMap_KeyedByStatus(_, _, _)
ArrayToMap_KeyedByStatus(items, i, routers) ==
    IF i > Len(items) THEN routers
    ELSE ArrayToMap_KeyedByStatus(items, i + 1,
             [n \in DOMAIN routers \cup {items[i].Status} |->
                 IF n = items[i].Status THEN items[i] ELSE routers[n]])

\* getTraefikRouters, lines 223-232: the array converted to a map keyed by
\* router name, a later router replacing an earlier one of the same name
RECURSIVE ArrayToMap(_, _, _)
ArrayToMap(items, i, routers) ==
    IF i > Len(items) THEN routers
    ELSE ArrayToMap(items, i + 1,
             [n \in DOMAIN routers \cup {items[i].Name} |->
                 IF n = items[i].Name THEN items[i] ELSE routers[n]])

\* getTraefikRouters, lines 206-240
getTraefikRouters(resp) ==
    IF resp.status = 0 THEN [err |-> TRUE, routers |-> <<>>]
    ELSE IF resp.status # 200 THEN [err |-> TRUE, routers |-> <<>>]
    ELSE IF resp.body.shape = "array"
         THEN [err |-> FALSE, routers |-> ArrayToMap(resp.body.items, 1, <<>>)]
    ELSE IF resp.body.shape = "object"
         THEN [err |-> FALSE, routers |-> resp.body.members]
    ELSE [err |-> TRUE, routers |-> <<>>]

\* extractHostnames with the filter written as a test for "disabled": a
\* router in any other state than enabled or disabled is read too
extractHostnames_SkipDisabledOnly(routers) ==
    UNION {RuleHostnames(routers[n].Rule) :
               n \in {m \in DOMAIN routers : routers[m].Status # "disabled"}}

\* extractHostnames without the status filter of lines 251-253
extractHostnames_AnyStatus(routers) ==
    UNION {RuleHostnames(routers[n].Rule) : n \in DOMAIN routers}

\* extractHostnames, lines 247-270: the hostnameSet
extractHostnames(routers) ==
    UNION {RuleHostnames(routers[n].Rule) :
               n \in {m \in DOMAIN routers : routers[m].Status = "enabled"}}

\* extractHostnames, lines 272-278: the slice built by ranging over the set,
\* in any order
Slices(S) ==
    {q \in [1..Cardinality(S) -> S] : \A i, j \in DOMAIN q : q[i] = q[j] => i = j}

\* the hostnames the inner loop of extractHostnames reaches for one captured
\* group, in order and with repetitions
RECURSIVE PartsHosts(_, _)
PartsHosts(parts, k) ==
    IF k > Len(parts) THEN <<>>
    ELSE LET hostname == Trim(TrimSpace(parts[k]), {Backtick})
         IN (IF hostname # <<>> THEN <<hostname>> ELSE <<>>) \o PartsHosts(parts, k + 1)

\* the same for all the matches of one rule
RECURSIVE MatchesHosts(_, _)
MatchesHosts(matches, k) ==
    IF k > Len(matches) THEN <<>>
    ELSE PartsHosts(Split(matches[k], ","), 1) \o MatchesHosts(matches, k + 1)

\* the same for the enabled routers among names, visited in that order
RECURSIVE RoutersHosts(_, _, _)
RoutersHosts(routers, names, k) ==
    IF k > Len(names) THEN <<>>
    ELSE (IF routers[names[k]].Status = "enabled"
          THEN MatchesHosts(FindAllStringSubmatch(routers[names[k]].Rule), 1)
          ELSE <<>>) \o RoutersHosts(routers, names, k + 1)

\* HostnameSlices without the hostnameSet: every hostname the loops reach is
\* appended to the slice, in the order some range over the routers gives
HostnameSlices_AppendEach(routers) ==
    {RoutersHosts(routers, names, 1) : names \in Slices(DOMAIN routers)}

\* extractHostnames, lines 243-279: the slices it may return, the keys of
\* the hostnameSet in any order
HostnameSlices(routers) == Slices(extractHostnames(routers))

\* RecordsFrom with the two tokens taken the other way round: the map is
\* keyed by the address
RECURSIVE RecordsFrom_KeyedByIP(_, _, _)
RecordsFrom_KeyedByIP(hosts, i, records) ==
    IF i > Len(hosts) THEN records
    ELSE LET parts == Fields(hosts[i])
         IN IF Len(parts) >= 2
            THEN RecordsFrom_KeyedByIP(hosts, i + 1,
                     [h \in DOMAIN records \cup {parts[1]} |->
                         IF h = parts[1] THEN parts[2] ELSE records[h]])
            ELSE RecordsFrom_KeyedByIP(hosts, i + 1, records)

\* RecordsFrom with a return in place of the skip: the loop ends at the
\* first line with fewer than two tokens
RECURSIVE RecordsFrom_StopAtMalformed(_, _, _)
RecordsFrom_StopAtMalformed(hosts, i, records) ==
    IF i > Len(hosts) THEN records
    ELSE LET parts == Fields(hosts[i])
         IN IF Len(parts) >= 2
            THEN RecordsFrom_StopAtMalformed(hosts, i + 1,
                     [h \in DOMAIN records \cup {parts[2]} |->
                         IF h = parts[2] THEN parts[1] ELSE records[h]])
            ELSE records

\* getPiHoleDNSRecords, lines 313-321: the map built from the hosts array
RECURSIVE RecordsFrom(_, _, _)
RecordsFrom(hosts, i, records) ==
    IF i > Len(hosts) THEN records
    ELSE LET parts == Fields(hosts[i])
         IN IF Len(parts) >= 2
            THEN RecordsFrom(hosts, i + 1,
                     [h \in DOMAIN records \cup {parts[2]} |->
                         IF h = parts[2] THEN parts[1] ELSE records[h]])
            ELSE RecordsFrom(hosts, i + 1, records)

\* getPiHoleDNSRecords with the error of Decode (lines 307-309) dropped: a
\* body that does not decode gives an empty map and no error
getPiHoleDNSRecords_IgnoreDecodeError(resp) ==
    IF resp.status = 0 THEN [err |-> TRUE, records |-> EmptyRecords]
    ELSE IF resp.status # 200 THEN [err |-> TRUE, records |-> EmptyRecords]
    ELSE IF ~resp.json THEN [err |-> FALSE, records |-> EmptyRecords]
    ELSE [err |-> FALSE, records |-> RecordsFrom(resp.hosts, 1, EmptyRecords)]

\* getPiHoleDNSRecords without the status check of lines 301-304
getPiHoleDNSRecords_IgnoreStatus(resp) ==
    IF resp.status = 0 THEN [err |-> TRUE, records |-> EmptyRecords]
    ELSE [err |-> FALSE, records |-> RecordsFrom(resp.hosts, 1, EmptyRecords)]

\* getPiHoleDNSRecords, lines 295-323
getPiHoleDNSRecords(resp) ==
    IF resp.status = 0 THEN [err |-> TRUE, records |-> EmptyRecords]
    ELSE IF resp.status # 200 THEN [err |-> TRUE, records |-> EmptyRecords]
    ELSE IF ~resp.json THEN [err |-> TRUE, records |-> EmptyRecords]
    ELSE [err |-> FALSE, records |-> RecordsFrom(resp.hosts, 1, EmptyRecords)]

\* HostEntry with the arguments of Sprintf the other way round
HostEntry_Swapped(ip, hostname) == PathEscape(hostname \o <<" ">> \o ip)

\* addPiHoleDNSRecord, lines 383-386: the escaped "IP HOSTNAME" entry
HostEntry(ip, hostname) == PathEscape(ip \o <<" ">> \o hostname)

\* addPiHoleDNSRecord, lines 401-412: TRUE when it returns an error
addPiHoleDNSRecord(status) ==
    IF status = 0 THEN TRUE
    ELSE status # 200 /\ status # 204 /\ status # 201

\* Missing without the lookup: every desired hostname is added
Missing_Always(hostname, existing) == TRUE

\* syncDNS, line 178: the record is missing
Missing(hostname, existing) == hostname \notin DOMAIN existing

\* countMissing without the lookup: it counts every hostname
countMissing_All(hostnames, existing) == Len(hostnames)

\* countMissing, lines 415-423
RECURSIVE countMissing(_, _)
countMissing(hostnames, existing) ==
    IF hostnames = <<>> THEN 0
    ELSE (IF Head(hostnames) \notin DOMAIN existing THEN 1 ELSE 0)
         + countMissing(Tail(hostnames), existing)

\* syncDNS, lines 196-200: the closing log line
Summary(dryRun, hostnames, existing, added) ==
    IF dryRun
    THEN LogLine("DRY-RUN: Would have added", <<>>, countMissing(hostnames, existing))
    ELSE LogLine("Sync completed: records added", <<>>, added)

\* ----------------------------------------------------------------- state

Init ==
    /\ env \in [RunMode : RunModes, LogLevel : LogLevels,
                SyncInterval : SyncIntervals, Set : SUBSET Required]
    /\ flags \in [once : BOOLEAN, dryRun : BOOLEAN]
    /\ config = [RunMode |-> "", LogLevel |-> "", SyncInterval |-> "",
                 TraefikHostIP |-> <<>>, DryRun |-> FALSE]
    /\ once = FALSE
    /\ mainPc = "start"
    /\ passes = [p \in Passes |-> IdlePass]
    /\ store \in InitialStores
    /\ created = {}
    /\ started = 0
    /\ syncFailed = FALSE

Running(p) == passes[p].pc \notin {"idle", "done"}

StartedPass(n) == [IdlePass EXCEPT !.pc = "auth", !.seq = n]

\* the pass returns: its error, "" for nil
Return(pass, err) == [pass EXCEPT !.pc = "done", !.err = err]

\* main, lines 52-79: flags, configuration, run mode
MainConfigure ==
    /\ mainPc = "start"
    /\ IF ConfigFatal(env)
       THEN /\ mainPc' = "fatal"
            /\ UNCHANGED <<config, once>>
       ELSE /\ config' = [loadConfig(env) EXCEPT
                              !.DryRun = ConfigDryRun(env.RunMode, flags)]
            /\ once' = OnceSwitch(env.RunMode, flags)
            /\ mainPc' = "configured"
    /\ UNCHANGED <<env, flags, passes, store, created, started, syncFailed>>

\* the initial call of syncDNS made in a goroutine (go syncDNS(config)):
\* main goes on to line 87 while the pass runs
MainSync_InGoroutine ==
    /\ mainPc = "configured"
    /\ passes' = [passes EXCEPT ![1] = StartedPass(1)]
    /\ started' = 1
    /\ mainPc' = AfterSync(once, config.SyncInterval, "")
    /\ UNCHANGED <<env, flags, config, once, store, created, syncFailed>>

\* main, line 83: the initial call of syncDNS
MainSync ==
    /\ mainPc = "configured"
    /\ passes' = [passes EXCEPT ![1] = StartedPass(1)]
    /\ started' = 1
    /\ mainPc' = "syncing"
    /\ UNCHANGED <<env, flags, config, once, store, created, syncFailed>>

\* main, lines 83-109: syncDNS has returned, its error is logged; exit, or
\* start the cron. syncFailed is a history variable: a "Sync failed" line
\* has been logged (lines 84 and 98).
MainAfterSync ==
    /\ mainPc = "syncing"
    /\ passes[1].pc = "done"
    /\ passes' = [passes EXCEPT ![1] = IdlePass]
    /\ syncFailed' = (passes[1].err # "")
    /\ mainPc' = AfterSync(once, config.SyncInterval, passes[1].err)
    /\ UNCHANGED <<env, flags, config, once, store, created, started>>

\* main, lines 97-100: syncDNS has returned in a cron goroutine, its error is
\* logged and the goroutine ends
CronJobEnd(p) ==
    /\ mainPc = "scheduled"
    /\ passes[p].pc = "done"
    /\ passes' = [passes EXCEPT ![p] = IdlePass]
    /\ syncFailed' = (syncFailed \/ passes[p].err # "")
    /\ UNCHANGED <<env, flags, config, once, mainPc, store, created, started>>

\* the cron started at line 105 fires the function of lines 95-100: every
\* firing runs it in a goroutine of its own, whatever earlier firings do
CronTick ==
    /\ mainPc = "scheduled"
    /\ started < MaxPasses
    /\ \E p \in Passes :
        /\ passes[p].pc = "idle"
        /\ passes' = [passes EXCEPT ![p] = StartedPass(started + 1)]
    /\ started' = started + 1
    /\ UNCHANGED <<env, flags, config, once, mainPc, store, created, syncFailed>>

\* syncDNS, lines 145-148
Authenticate(p) ==
    /\ passes[p].pc = "auth"
    /\ \E resp \in AuthResponses(passes[p].seq) :
        LET r == authenticatePiHoleV6(resp)
            called == [passes[p] EXCEPT
                          !.calls = Append(@, Call("POST", "/api/auth", 0, <<>>, resp))]
        IN passes' = [passes EXCEPT ![p] =
                         IF r.err
                         THEN Return(called, "authentication failed")
                         ELSE [called EXCEPT !.sid = r.sid, !.pc = "routers"]]
    /\ UNCHANGED <<env, flags, config, once, mainPc, store, created, started,
                   syncFailed>>

\* what the record of a route fetch keeps of the response: its status, and
\* whether the body is one of the two encodings of a routing table
RoutesOutcome(resp) ==
    [status |-> resp.status, parses |-> resp.body.shape \in {"array", "object"}]

\* syncDNS, lines 150-165, with the responses the Traefik API may give. With
\* a peer that never answers the pass stays in http.Get: pc "blocked", from
\* which it has no step.
FetchRoutesOf(p, responses) ==
    /\ passes[p].pc = "routers"
    /\ \E resp \in responses :
        LET r == getTraefikRouters(resp)
            called == [passes[p] EXCEPT
                          !.calls = Append(@, Call("GET", "traefik", 0, <<>>,
                                                   RoutesOutcome(resp)))]
        IN IF resp = NoAnswer
           THEN passes' = [passes EXCEPT ![p].pc = "blocked"]
           ELSE IF r.err
           THEN passes' = [passes EXCEPT ![p] =
                              Return(called, "failed to get Traefik routers")]
           ELSE \E hs \in HostnameSlices(r.routers) :
                  LET found == [called EXCEPT
                                  !.routers = r.routers,
                                  !.hostnames = hs,
                                  !.log = @ \o
                                     <<LogLine("Found routers in Traefik", <<>>,
                                               Cardinality(DOMAIN r.routers)),
                                       LogLine("Extracted unique hostnames", <<>>, Len(hs))>>]
                  IN passes' = [passes EXCEPT ![p] =
                        IF Len(hs) = 0
                        THEN Return([found EXCEPT !.log =
                                 Append(@, LogLine("No hostnames found to sync", <<>>, 0))], "")
                        ELSE [found EXCEPT !.pc = "records"]]
    /\ UNCHANGED <<env, flags, config, once, mainPc, store, created, started,
                   syncFailed>>

\* syncDNS, lines 150-165, over the routing tables of RouteTables
FetchRoutes(p) == FetchRoutesOf(p, TraefikResponses \cup {NoAnswer})

\* syncDNS, lines 167-176
FetchRecords(p) ==
    /\ passes[p].pc = "records"
    /\ \E resp \in DnsConfigResponses(store) :
        LET r == getPiHoleDNSRecords(resp)
            called == [passes[p] EXCEPT
                          !.calls = Append(@, Call("GET", "/api/config/dns",
                                                   passes[p].sid, <<>>, resp))]
        IN passes' = [passes EXCEPT ![p] =
              IF r.err
              THEN Return(called, "failed to get Pi-hole DNS records")
              ELSE [called EXCEPT
                       !.existingRecords = r.records,
                       !.seen = created,
                       !.log = Append(@, LogLine("Found existing DNS records in Pi-hole",
                                                 <<>>, Cardinality(DOMAIN r.records))),
                       !.idx = 1, !.added = 0, !.pc = "loop"]]
    /\ UNCHANGED <<env, flags, config, once, mainPc, store, created, started,
                   syncFailed>>

\* Finish with an early return: the pass ends, with an error, at the first
\* create call that fails
Finish_AbortOnFailure(pass) ==
    IF Len(pass.log) > 0 /\ pass.log[Len(pass.log)].msg = "Failed to add"
    THEN Return(pass, "failed to add DNS record")
    ELSE IF pass.idx > Len(pass.hostnames)
    THEN Return([pass EXCEPT !.log =
                    Append(@, Summary(config.DryRun, pass.hostnames,
                                      pass.existingRecords, pass.added))], "")
    ELSE pass

\* syncDNS, lines 196-202, once the loop has ended
Finish(pass) ==
    IF pass.idx > Len(pass.hostnames)
    THEN Return([pass EXCEPT !.log =
                    Append(@, Summary(config.DryRun, pass.hostnames,
                                      pass.existingRecords, pass.added))], "")
    ELSE pass

\* syncDNS, lines 177-194: one iteration of the loop over hostnames
SyncHostname(p) ==
    /\ passes[p].pc = "loop"
    /\ passes[p].idx <= Len(passes[p].hostnames)
    /\ LET pass == passes[p]
           hostname == pass.hostnames[pass.idx]
           next == [pass EXCEPT !.idx = @ + 1]
       IN IF Missing(hostname, pass.existingRecords)
          THEN IF config.DryRun
               THEN /\ passes' = [passes EXCEPT ![p] = Finish([next EXCEPT !.log =
                                     Append(@, LogLine("[DRY-RUN] Would add", hostname, 0))])]
                    /\ UNCHANGED <<store, created>>
               ELSE \E status \in PutStatuses :
                      LET entry == HostEntry(config.TraefikHostIP, hostname)
                          called == [next EXCEPT !.calls =
                                       Append(@, Call("PUT", "/api/config/dns/hosts/",
                                                      pass.sid, entry,
                                                      [accepted |-> Accepted(status)]))]
                      IN /\ store' = PiHolePut(store, entry, status)
                         /\ created' = IF Accepted(status)
                                        THEN created \cup {hostname} ELSE created
                         /\ passes' = [passes EXCEPT ![p] = Finish(
                               IF addPiHoleDNSRecord(status)
                               THEN [called EXCEPT !.log =
                                        Append(@, LogLine("Failed to add", hostname, 0))]
                               ELSE [called EXCEPT
                                        !.log = Append(@, LogLine("Added", hostname, 0)),
                                        !.added = @ + 1])]
          ELSE /\ passes' = [passes EXCEPT ![p] = Finish(
                     IF config.LogLevel = "debug"
                     THEN [next EXCEPT !.log =
                              Append(@, LogLine("Already exists", hostname, 0))]
                     ELSE next)]
               /\ UNCHANGED <<store, created>>
    /\ UNCHANGED <<env, flags, config, once, mainPc, started, syncFailed>>

Next ==
    \/ MainConfigure
    \/ MainSync
    \/ MainAfterSync
    \/ CronTick
    \/ \E p \in Passes : CronJobEnd(p)
    \/ \E p \in Passes : Authenticate(p)
    \/ \E p \in Passes : FetchRoutes(p)
    \/ \E p \in Passes : FetchRecords(p)
    \/ \E p \in Passes : SyncHostname(p)

Spec == Init /\ [][Next]_vars

\* ------------------------------------------------- the extraction runs
\*
\* One process run in apply mode with --once, over every routing table of up
\* to MaxRoutes routers whose statuses and rules are drawn from the sets
\* below: the pass of the run applies getTraefikRouters and extractHostnames
\* to each of them, in both encodings.

\* Host(\x60a\x60) && Host(\x60a\x60): one hostname twice in one rule
RuleHostATwice == RuleHostA \o <<" ", "&", "&", " ">> \o RuleHostA

\* Host(\x60a\x60,\x60b\x60): one clause with two backtick-quoted literals
RuleHostList == HostOpen \o <<"a", Backtick, ",", Backtick, "b", Backtick, ")">>

\* Host(\x60a, b\x60): one quoted literal with a comma inside
RuleHostInner == HostOpen \o <<"a", ",", " ", "b", Backtick, ")">>

ExtractRules ==
    {RuleHostA, RuleHostAOrB, RuleHostATwice, RuleHostList, RuleHostInner, RulePath}

\* TraefikRouter.Status as the Traefik API reports it
ExtractStatuses == {"enabled", "disabled", "warning"}

\* the name of the i-th router of a table
RouterNames == <<"r1", "r2", "r3", "r4">>

ExtractTables ==
    UNION {{[i \in 1..n |-> Router(RouterNames[i], f[i].Status, f[i].Rule)] :
               f \in [1..n -> [Status : ExtractStatuses, Rule : ExtractRules]]} :
           n \in 0..MaxRoutes}

ExtractResponses ==
    {[status |-> 200, body |-> ArrayBody(t)] : t \in ExtractTables}
    \cup {[status |-> 200, body |-> ObjectBody(t)] : t \in ExtractTables}

InitExtract ==
    /\ Init
    /\ env = [RunMode |-> "", LogLevel |-> "info",
              SyncInterval |-> "@every 5m", Set |-> Required]
    /\ flags = [once |-> TRUE, dryRun |-> FALSE]

\* syncDNS, lines 150-165, over the routing tables of ExtractTables
ExtractRoutes == FetchRoutesOf(1, ExtractResponses)

NextExtract ==
    \/ MainConfigure
    \/ MainSync
    \/ MainAfterSync
    \/ Authenticate(1)
    \/ ExtractRoutes
    \/ FetchRecords(1)
    \/ SyncHostname(1)

SpecExtract == InitExtract /\ [][NextExtract]_vars

\* ------------------------------------- the runs over existing records
\*
\* One process run in apply mode with --once, the manager starting with any
\* hosts array of up to MaxLines lines drawn from the set below: the pass of
\* the run applies getPiHoleDNSRecords to it.

\* lines of a hosts array: an empty one, a comment, a lone token, two
\* records, and a record written with a tab and surrounding spaces
RecordLines ==
    { <<>>,
      <<"#">>,
      <<"5">>,
      Line(OtherIP, HostA),
      Line(TargetIP, HostB),
      <<" ", "5", "\t", "b", " ">> }

RecordStores == UNION {[1..n -> RecordLines] : n \in 0..MaxLines}

InitRecords ==
    /\ env = [RunMode |-> "", LogLevel |-> "info",
              SyncInterval |-> "@every 5m", Set |-> Required]
    /\ flags = [once |-> TRUE, dryRun |-> FALSE]
    /\ config = [RunMode |-> "", LogLevel |-> "", SyncInterval |-> "",
                 TraefikHostIP |-> <<>>, DryRun |-> FALSE]
    /\ once = FALSE
    /\ mainPc = "start"
    /\ passes = [p \in Passes |-> IdlePass]
    /\ store \in RecordStores
    /\ created = {}
    /\ started = 0
    /\ syncFailed = FALSE

NextRecords ==
    \/ MainConfigure
    \/ MainSync
    \/ MainAfterSync
    \/ Authenticate(1)
    \/ FetchRoutes(1)
    \/ FetchRecords(1)
    \/ SyncHostname(1)

SpecRecords == InitRecords /\ [][NextRecords]_vars

\* ------------------------------------------------------ reading the state

\* positions of the create calls (PUT) among a pass's calls
Puts(pass) == {k \in 1..Len(pass.calls) : pass.calls[k].method = "PUT"}

\* positions of the calls on the manager's address-mapping configuration
DnsConfigCalls(pass) ==
    {k \in 1..Len(pass.calls) :
        pass.calls[k].path \in {"/api/config/dns", "/api/config/dns/hosts/"}}

\* the "IP HOSTNAME" lines a pass asked the manager to create
PutLines(pass) == {PathUnescape(pass.calls[k].entry) : k \in Puts(pass)}

Desired(pass) == Range(pass.hostnames)

\* the true diff: the desired hostnames that are not keys of the mapping
TrueDiff(pass) == {h \in Desired(pass) : h \notin DOMAIN pass.existingRecords}

LogCount(pass, msg) == Cardinality({k \in 1..Len(pass.log) : pass.log[k].msg = msg})

Logged(pass, msg, host) ==
    \E k \in 1..Len(pass.log) : pass.log[k].msg = msg /\ pass.log[k].host = host

LastLog(pass) == pass.log[Len(pass.log)]

\* the pass went through its loop and returned
Completed(pass) ==
    /\ pass.pc = "done"
    /\ pass.hostnames # <<>>
    /\ Len(pass.log) > 0
    /\ LastLog(pass).msg \in {"DRY-RUN: Would have added", "Sync completed: records added"}

\* what a failed step is, told from the response alone
AuthFailed(resp) == resp.status # 200 \/ ~resp.json \/ resp.sid = 0
RoutesFailed(resp) == resp.status # 200 \/ ~resp.parses
RecordsFailed(resp) == resp.status # 200 \/ ~resp.json

DiscoveryFailed(call) ==
    \/ call.path = "/api/auth" /\ AuthFailed(call.resp)
    \/ call.path = "traefik" /\ RoutesFailed(call.resp)
    \/ call.path = "/api/config/dns" /\ RecordsFailed(call.resp)

\* the lines of a hosts array that give hostname h an address
LinesOf(hosts, h) ==
    {i \in 1..Len(hosts) : Len(Fields(hosts[i])) >= 2 /\ Fields(hosts[i])[2] = h}

HasRecord(hosts, h) == LinesOf(hosts, h) # {}

\* the hostnames a hosts array gives an address
HostnamesOf(hosts) ==
    {Fields(hosts[i])[2] : i \in {j \in 1..Len(hosts) : Len(Fields(hosts[j])) >= 2}}

\* the address the hosts array gives h: that of its last line for h
AddressOf(hosts, h) ==
    Fields(hosts[CHOOSE i \in LinesOf(hosts, h) : \A j \in LinesOf(hosts, h) : j <= i])[1]

\* a rule with a host-matching clause
HasHostClause(rule) ==
    \E i \in 1..Len(rule) : HasAt(rule, i, <<"H", "o", "s", "t", "(">>)

\* The host-matching clauses of a rule as the comment of line 244 gives
\* them, Host(\x60hostname\x60) or Host(\x60hostname1\x60,\x60hostname2\x60): the text of
\* the clause at position i, from "Host(" to the next closing parenthesis.
ClauseAt(rule, i) ==
    LET j == IndexFrom(rule, i + 5, ")")
    IN IF HasAt(rule, i, <<"H", "o", "s", "t", "(">>) /\ j <= Len(rule)
       THEN SubSeq(rule, i + 5, j - 1)
       ELSE <<>>

\* the literals of the clauses of a rule: the comma-separated parts of each
\* clause, without their backticks and surrounding whitespace, when not empty
ClauseLiterals(rule) ==
    UNION {{Trim(Split(ClauseAt(rule, i), ",")[k], {" ", "\t", Backtick}) :
                k \in 1..Len(Split(ClauseAt(rule, i), ","))} :
           i \in 1..Len(rule)} \ {<<>>}

\* the pass has the routing table
RoutesFetched(pass) ==
    /\ Len(pass.calls) >= 2
    /\ ~RoutesFailed(pass.calls[2].resp)

\* the pass has the routing table and the hostnames extracted from it, and
\* has made no call since
JustExtracted(pass) ==
    /\ RoutesFetched(pass)
    /\ Len(pass.calls) = 2

\* the names of the routes of the table whose status is the active one
ActiveRoutes(pass) ==
    {n \in DOMAIN pass.routers : pass.routers[n].Status = "enabled"}

\* a routing table cut down to some of its routes
Restrict(routers, names) == [n \in names |-> routers[n]]

\* ------------------------------------------------------------------ claims

\* C1: in preview (dry-run) mode no pass issues a PUT, and the closing line
\* of a pass that ran its loop reports a would-add count equal to the size of
\* the true diff (the desired hostnames that are not keys of the mapping).
C1_DryRunNoWrites ==
    config.DryRun =>
        \A p \in Passes :
            /\ Puts(passes[p]) = {}
            /\ Completed(passes[p]) =>
                /\ LastLog(passes[p]).msg = "DRY-RUN: Would have added"
                /\ LastLog(passes[p]).n = Cardinality(TrueDiff(passes[p]))
                /\ LogCount(passes[p], "[DRY-RUN] Would add") = Cardinality(TrueDiff(passes[p]))

\* a preview pass that ended with two desired hostnames, one of them missing
C1_Witness ==
    \E p \in Passes :
        /\ config.DryRun
        /\ Completed(passes[p])
        /\ Len(passes[p].hostnames) = 2
        /\ Cardinality(TrueDiff(passes[p])) = 1

\* the create calls of a pass that the manager accepted / did not accept
AcceptedPuts(pass) == {k \in Puts(pass) : pass.calls[k].resp.accepted}
RefusedPuts(pass) == Puts(pass) \ AcceptedPuts(pass)

\* the hostnames of the loop's iterations that have run
Processed(pass) == {pass.hostnames[i] : i \in 1..(pass.idx - 1)}

\* the pass has read the existing records
Fetched(pass) ==
    /\ Len(pass.calls) >= 3
    /\ pass.calls[3].path = "/api/config/dns"
    /\ ~RecordsFailed(pass.calls[3].resp)

\* the counts the closing line of a pass carries
SummaryCounts(pass) == <<LastLog(pass).n>>

C3_DiscoveryFailureIsFatal ==
    \A p \in Passes :
        \A k \in 1..Len(passes[p].calls) :
            DiscoveryFailed(passes[p].calls[k]) =>
                /\ passes[p].pc = "done"
                /\ passes[p].err # ""
                /\ k = Len(passes[p].calls)
                /\ Puts(passes[p]) = {}

\* an apply-mode pass that failed at the existing-state fetch
C3_Witness ==
    \E p \in Passes :
        /\ ~config.DryRun
        /\ passes[p].pc = "done"
        /\ passes[p].err = "failed to get Pi-hole DNS records"
        /\ Len(passes[p].calls) = 3
        /\ RecordsFailed(passes[p].calls[3].resp)
        /\ Len(passes[p].hostnames) = 2

\* C4: a pass whose authentication failed, a status-200 response with an
\* empty session id included, issues no GET and no PUT on /api/config/dns.
C4_AuthFailureBeforeDnsState ==
    \A p \in Passes :
        (Len(passes[p].calls) >= 1 /\ AuthFailed(passes[p].calls[1].resp)) =>
            /\ DnsConfigCalls(passes[p]) = {}
            /\ passes[p].err = "authentication failed"

\* a pass that got status 200 with an empty session id
C4_Witness ==
    \E p \in Passes :
        /\ passes[p].pc = "done"
        /\ passes[p].calls[1].resp = [status |-> 200, json |-> TRUE, sid |-> 0]
        /\ ~config.DryRun

\* C5 (as stated): in apply mode the create calls of a pass are exactly the
\* desired hostnames that are not keys of the existing-state mapping, each
\* with the target address and each once, and every desired hostname that is
\* a key gets no create call and is reported as a pre-existing skip.
C5_SkipsAreReported ==
    \A p \in Passes :
        (~config.DryRun /\ Completed(passes[p])) =>
            /\ PutLines(passes[p]) = {Line(TargetIP, h) : h \in TrueDiff(passes[p])}
            /\ Cardinality(Puts(passes[p])) = Cardinality(TrueDiff(passes[p]))
            /\ \A h \in Desired(passes[p]) \ TrueDiff(passes[p]) :
                   Logged(passes[p], "Already exists", h)

\* C5 (amended): in apply mode the create calls of a pass are exactly the
\* desired hostnames that are not keys of the existing-state mapping, each
\* with the target address and each once; a desired hostname that is a key
\* gets no create call, and the pass keeps no count of such skips: it logs
\* an "Already exists" line for the hostname when LOG_LEVEL is debug, and
\* nothing otherwise.
C5_CreatesExactlyTheDiff ==
    \A p \in Passes :
        (~config.DryRun /\ Fetched(passes[p])) =>
            /\ PutLines(passes[p]) =
                   {Line(TargetIP, h) : h \in Processed(passes[p]) \cap TrueDiff(passes[p])}
            /\ Cardinality(Puts(passes[p])) =
                   Cardinality(Processed(passes[p]) \cap TrueDiff(passes[p]))
            /\ \A h \in Processed(passes[p]) \ TrueDiff(passes[p]) :
                   /\ Line(TargetIP, h) \notin PutLines(passes[p])
                   /\ Logged(passes[p], "Already exists", h) <=> config.LogLevel = "debug"
            /\ \A h \in TrueDiff(passes[p]) : ~Logged(passes[p], "Already exists", h)
            /\ Completed(passes[p]) => Processed(passes[p]) = Desired(passes[p])

\* desired {a, b} with a already a key: one create call, for b, and at log
\* level info no trace of the skip
C5_Witness ==
    \E p \in Passes :
        /\ ~config.DryRun
        /\ config.LogLevel = "info"
        /\ Completed(passes[p])
        /\ Desired(passes[p]) = {HostA, HostB}
        /\ TrueDiff(passes[p]) = {HostB}
        /\ PutLines(passes[p]) = {Line(TargetIP, HostB)}
        /\ LogCount(passes[p], "Already exists") = 0

\* an apply-mode pass that completed with every create call accepted
FullySuccessful(pass) ==
    /\ ~config.DryRun
    /\ Completed(pass)
    /\ RefusedPuts(pass) = {}

\* C6 (as stated): after an apply-mode pass that completed with every create
\* call succeeding, the manager gives every extracted hostname the target
\* address.
C6_EveryHostnameResolvesToTarget ==
    \A p \in Passes :
        FullySuccessful(passes[p]) =>
            \A h \in Desired(passes[p]) :
                HasRecord(store, h) /\ AddressOf(store, h) = TargetIP

\* C6 (amended): after an apply-mode pass that completed with every create
\* call succeeding, the manager holds a record for every extracted hostname:
\* with the target address when the hostname was not a key of the
\* existing-state mapping, and with the address it already had otherwise.
C6_EveryHostnameHasARecord ==
    \A p \in Passes :
        FullySuccessful(passes[p]) =>
            \A h \in Desired(passes[p]) :
                /\ HasRecord(store, h)
                /\ AddressOf(store, h) =
                       IF h \in TrueDiff(passes[p]) THEN TargetIP ELSE passes[p].existingRecords[h]

\* a fully successful pass that added b and left a at the address it had
C6_Witness ==
    \E p \in Passes :
        /\ FullySuccessful(passes[p])
        /\ Desired(passes[p]) = {HostA, HostB}
        /\ TrueDiff(passes[p]) = {HostB}
        /\ AddressOf(store, HostA) = OtherIP
        /\ AddressOf(store, HostB) = TargetIP

\* C7: additions only: no step of the process removes or changes a line of
\* the manager's hosts array, and no step changes the address the array
\* gives a hostname that had one.
C7_AdditionsOnly ==
    [][\/ store' = store
       \/ /\ Len(store) < Len(store')
          /\ SubSeq(store', 1, Len(store)) = store
          /\ \A h \in HostnamesOf(store) :
                 HasRecord(store', h) /\ AddressOf(store', h) = AddressOf(store, h)]_vars

\* the array holds the line it started with, at its address, and a line a
\* pass added
C7_Witness ==
    /\ Len(store) = 3
    /\ store[2] = Line(OtherIP, HostA)
    /\ store[3] = Line(TargetIP, HostB)

\* C8: a pass that fetched a routing table with no active route, or with no
\* host-matching clause in the rules of its active routes, extracted no
\* hostname and ended without error, having made the authentication call and
\* the route fetch and no other call.
C8_NoHostnamesNoOp ==
    \A p \in Passes :
        (/\ Len(passes[p].calls) >= 2
         /\ ~RoutesFailed(passes[p].calls[2].resp)
         /\ \A n \in DOMAIN passes[p].routers :
                \/ passes[p].routers[n].Status # "enabled"
                \/ ~HasHostClause(passes[p].routers[n].Rule)) =>
            /\ passes[p].hostnames = <<>>
            /\ passes[p].pc = "done"
            /\ passes[p].err = ""
            /\ Len(passes[p].calls) = 2
            /\ DnsConfigCalls(passes[p]) = {}
            /\ Puts(passes[p]) = {}

\* an apply-mode pass over a table whose only route has a host clause and is
\* not active
C8_Witness ==
    \E p \in Passes :
        /\ ~config.DryRun
        /\ passes[p].pc = "done"
        /\ Len(passes[p].calls) = 2
        /\ DOMAIN passes[p].routers # {}
        /\ \A n \in DOMAIN passes[p].routers :
               /\ passes[p].routers[n].Status # "enabled"
               /\ HasHostClause(passes[p].routers[n].Rule)

\* C9: idempotence across passes: a hostname whose create call the manager
\* had accepted when a pass read the existing state has a record in what
\* that pass read, is a key of the mapping the pass built from it, and gets
\* no create call in that pass; a pass all of whose desired hostnames had a
\* record when it read the existing state issues no write.
C9_CreatedIsRecognised ==
    \A p \in Passes :
        Fetched(passes[p]) =>
            /\ \A h \in passes[p].seen :
                   /\ HasRecord(passes[p].calls[3].resp.hosts, h)
                   /\ h \in DOMAIN passes[p].existingRecords
                   /\ Line(TargetIP, h) \notin PutLines(passes[p])
            /\ Desired(passes[p]) \subseteq HostnamesOf(passes[p].calls[3].resp.hosts)
                   => Puts(passes[p]) = {}

\* a later apply-mode pass that completed over two hostnames, both created
\* by an earlier pass, and wrote nothing
C9_Witness ==
    \E p \in Passes :
        /\ ~config.DryRun
        /\ passes[p].seq >= 2
        /\ Completed(passes[p])
        /\ Desired(passes[p]) = {HostA, HostB}
        /\ passes[p].seen = {HostA, HostB}
        /\ Puts(passes[p]) = {}

\* C10 (as stated): at most one reconciliation pass is in progress in every
\* reachable state of the process.
C10_AtMostOnePassInProgress ==
    Cardinality({p \in Passes : Running(p)}) <= 1

\* the steps of the pass that goroutine p runs
PassStep(p) ==
    \/ Authenticate(p)
    \/ FetchRoutes(p)
    \/ FetchRecords(p)
    \/ SyncHostname(p)

\* C11 (as stated): every network call of a pass carries a bounded timeout,
\* so no pass waits on a peer for ever: a pass in progress always has a step
\* that takes it on, to its end or to the failure of the step.
C11_NoPassBlocksForever ==
    \A p \in Passes : Running(p) => ENABLED PassStep(p)

\* C12: a failed pass never ends the process. The process is fatal only for
\* its configuration (a required variable missing, an interval the cron
\* rejects) and exits only in single-pass mode; in scheduled mode, once a
\* pass has failed and its error is logged, the scheduler is running, and it
\* can start a further pass whenever a goroutine is free.
C12_PassFailureIsNotFatal ==
    /\ mainPc = "fatal" => (ConfigFatal(env) \/ AddFuncFails(env.SyncInterval))
    /\ mainPc = "exited" => once
    /\ (syncFailed /\ ~once /\ ~AddFuncFails(config.SyncInterval)) =>
           /\ mainPc = "scheduled"
           /\ (started < MaxPasses /\ \E p \in Passes : passes[p].pc = "idle") =>
                  ENABLED CronTick

\* scheduled mode: the initial pass failed, and the first scheduled pass is
\* in progress
C12_Witness ==
    /\ syncFailed
    /\ ~once
    /\ mainPc = "scheduled"
    /\ started = 2
    /\ \E p \in Passes : passes[p].seq = 2 /\ Running(p)

\* the run switches as the user sets them: by flag or by RUN_MODE
PreviewOn == flags.dryRun \/ env.RunMode \in {"dry-run", "scheduled-dry-run"}
SinglePassOn == flags.once \/ env.RunMode \in {"once", "dry-run"}

C15_OnlyActiveRoutesCount ==
    \A p \in Passes :
        JustExtracted(passes[p]) =>
            /\ Desired(passes[p]) \subseteq
                   UNION {ClauseLiterals(passes[p].routers[n].Rule) :
                              n \in ActiveRoutes(passes[p])}
            /\ Desired(passes[p]) =
                   extractHostnames(Restrict(passes[p].routers, ActiveRoutes(passes[p])))

\* a table with an enabled route for a and a route in state warning for a
\* and b: the pass extracted a alone
C15_Witness ==
    /\ JustExtracted(passes[1])
    /\ DOMAIN passes[1].routers = {"r1", "r2"}
    /\ passes[1].routers["r1"] = Router("r1", "enabled", RuleHostA)
    /\ passes[1].routers["r2"] = Router("r2", "warning", RuleHostAOrB)
    /\ Desired(passes[1]) = {HostA}

\* C16 (as stated): for every enabled route, each host clause of its rule,
\* with one backtick-quoted literal or with several separated by commas,
\* gives every one of its non-empty trimmed literals to the extracted set,
\* and all the clauses of a rule count.
C16_EveryLiteralIsExtracted ==
    \A p \in Passes :
        RoutesFetched(passes[p]) =>
            \A n \in ActiveRoutes(passes[p]) :
                ClauseLiterals(passes[p].routers[n].Rule) \subseteq Desired(passes[p])

\* C17: the extractor's output is a set: a hostname that the loops of
\* extractHostnames reach several times, in several routes or several times
\* in one rule, is in the returned slice exactly once, and the pass issues
\* no two create calls for one hostname.
C17_HostnamesAreASet ==
    \A p \in Passes :
        RoutesFetched(passes[p]) =>
            /\ \A i, j \in 1..Len(passes[p].hostnames) :
                   passes[p].hostnames[i] = passes[p].hostnames[j] => i = j
            /\ JustExtracted(passes[p]) =>
                   \A names \in Slices(DOMAIN passes[p].routers) :
                       Range(RoutersHosts(passes[p].routers, names, 1)) = Desired(passes[p])
            /\ \A k, l \in Puts(passes[p]) :
                   passes[p].calls[k].entry = passes[p].calls[l].entry => k = l

\* hostname a three times in the table, twice in the rule of r1 and once in
\* that of r2: the pass completed with hostnames <<a>> and one create call
C17_Witness ==
    /\ Completed(passes[1])
    /\ DOMAIN passes[1].routers = {"r1", "r2"}
    /\ passes[1].routers["r1"] = Router("r1", "enabled", RuleHostATwice)
    /\ passes[1].routers["r2"] = Router("r2", "enabled", RuleHostA)
    /\ Len(RoutersHosts(passes[1].routers, <<"r1", "r2">>, 1)) = 3
    /\ passes[1].hostnames = <<HostA>>
    /\ Cardinality(Puts(passes[1])) = 1

\* the response that carries table t as a JSON array / as a JSON object
AsArray(t) == [status |-> 200, body |-> ArrayBody(t)]
AsObject(t) == [status |-> 200, body |-> ObjectBody(t)]

\* the routers of a fetched routing table, in every order
TablesOf(pass) == Slices({pass.routers[n] : n \in DOMAIN pass.routers})

\* C18: the two encodings of one routing table give the same hostnames: for
\* the routes a pass has just fetched, in any order, the array encoding and
\* the object-keyed encoding both parse, and extractHostnames gives the same
\* set for both, the set the pass goes on with.
C18_EncodingsAgree ==
    \A p \in Passes :
        JustExtracted(passes[p]) =>
            \A t \in TablesOf(passes[p]) :
                /\ ~getTraefikRouters(AsArray(t)).err
                /\ ~getTraefikRouters(AsObject(t)).err
                /\ extractHostnames(getTraefikRouters(AsArray(t)).routers) =
                       extractHostnames(getTraefikRouters(AsObject(t)).routers)
                /\ extractHostnames(getTraefikRouters(AsArray(t)).routers) =
                       Desired(passes[p])

\* a table of two enabled routes with hostnames a and b between them, the
\* pass about to read the existing records
C18_Witness ==
    /\ RoutesFetched(passes[1])
    /\ DOMAIN passes[1].routers = {"r1", "r2"}
    /\ passes[1].routers["r1"] = Router("r1", "enabled", RuleHostInner)
    /\ passes[1].routers["r2"] = Router("r2", "enabled", RuleHostATwice)
    /\ Desired(passes[1]) = {HostA, HostB}
    /\ JustExtracted(passes[1])

\* C19: lines of the existing state with fewer than two whitespace-separated
\* tokens are skipped, without error and without effect on the other lines:
\* the keys of the mapping a pass builds are exactly the second tokens of
\* the lines with two tokens or more, each with the address of the last such
\* line, and the read does not fail.
C19_MalformedLinesAreSkipped ==
    \A p \in Passes :
        Fetched(passes[p]) =>
            /\ DOMAIN passes[p].existingRecords =
                   HostnamesOf(passes[p].calls[3].resp.hosts)
            /\ \A h \in DOMAIN passes[p].existingRecords :
                   passes[p].existingRecords[h] =
                       AddressOf(passes[p].calls[3].resp.hosts, h)
            /\ passes[p].err = ""

\* a hosts array with a comment line before a record written with a tab:
\* the mapping has the record's hostname, b, and no other key
C19_Witness ==
    /\ Fetched(passes[1])
    /\ passes[1].calls[3].resp.hosts = << <<"#">>, <<" ", "5", "\t", "b", " ">> >>
    /\ DOMAIN passes[1].existingRecords = {HostB}
    /\ passes[1].existingRecords[HostB] = OtherIP

\* C20: a pass is sequential in the order authenticate, fetch routes,
\* extract, fetch existing, diff, apply. Its calls are, in this order, the
\* authentication, the route fetch, the read of the existing records and the
\* create calls; each is made only when the one before it has succeeded;
\* the hostnames are extracted only from a fetched table, the read of the
\* existing records is made only for a non-empty extracted set, and every
\* create call is for a hostname of the diff, after all three have succeeded.
C20_PassIsSequential ==
    \A p \in Passes :
        LET pass == passes[p]
            n == Len(pass.calls)
        IN /\ (pass.pc \in {"idle", "auth"}) <=> (n = 0)
           /\ n >= 1 => pass.calls[1].path = "/api/auth"
           /\ pass.pc \in {"routers", "blocked"} =>
                  (n = 1 /\ ~AuthFailed(pass.calls[1].resp))
           /\ n >= 2 =>
                  /\ ~AuthFailed(pass.calls[1].resp)
                  /\ pass.calls[2].path = "traefik"
           /\ pass.hostnames # <<>> => RoutesFetched(pass)
           /\ pass.pc = "records" => (n = 2 /\ pass.hostnames # <<>>)
           /\ n >= 3 =>
                  /\ RoutesFetched(pass)
                  /\ pass.hostnames # <<>>
                  /\ pass.calls[3].path = "/api/config/dns"
                  /\ pass.calls[3].method = "GET"
           /\ pass.pc = "loop" => Fetched(pass)
           /\ \A k \in 1..n :
                  k >= 4 =>
                      /\ Fetched(pass)
                      /\ pass.calls[k].method = "PUT"
                      /\ PathUnescape(pass.calls[k].entry) \in
                             {Line(TargetIP, h) : h \in TrueDiff(pass)}
           /\ Puts(pass) \subseteq 4..n

\* an apply-mode pass that went through all the steps and made two create
\* calls
C20_Witness ==
    \E p \in Passes :
        /\ Completed(passes[p])
        /\ Len(passes[p].calls) = 5
        /\ Puts(passes[p]) = {4, 5}

\* the calls of a pass that authenticate: POST /api/auth
AuthCalls(pass) ==
    {k \in 1..Len(pass.calls) : pass.calls[k].path = "/api/auth"}

\* the calls of a pass that carry a session id: the read of the existing
\* records (line 168) and the create calls (line 182)
AuthenticatedCalls(pass) ==
    {k \in 1..Len(pass.calls) :
        pass.calls[k].path \in {"/api/config/dns", "/api/config/dns/hosts/"}}

\* the session ids the manager issued to passes that started before pass:
\* the manager issues to a pass the number of the pass
EarlierSids(pass) == 1..(pass.seq - 1)

\* C21: the session id is local to a pass. A pass authenticates at most
\* once, and exactly once when it is past its authentication; every call
\* of the pass that carries a session id (the read of the existing records
\* and each create call) carries the id the authentication of this same
\* pass obtained, which is not empty, and never an id issued to a pass that
\* started earlier.
C21_SessionIsPassLocal ==
    \A p \in Passes :
        LET pass == passes[p]
        IN /\ Cardinality(AuthCalls(pass)) <= 1
           /\ pass.pc \notin {"idle", "auth"} => AuthCalls(pass) = {1}
           /\ pass.sid # 0 => pass.sid = pass.calls[1].resp.sid
           /\ \A k \in AuthenticatedCalls(pass) :
                  /\ AuthCalls(pass) = {1}
                  /\ k > 1
                  /\ pass.calls[k].sid = pass.calls[1].resp.sid
                  /\ pass.calls[k].sid # 0
                  /\ pass.calls[k].sid \notin EarlierSids(pass)

\* the last pass the process starts has read the existing records and made
\* a create call, after the earlier passes
C21_Witness ==
    \E p \in Passes :
        /\ passes[p].seq = MaxPasses
        /\ started = MaxPasses
        /\ Completed(passes[p])
        /\ Cardinality(AuthenticatedCalls(passes[p])) >= 2
        /\ Puts(passes[p]) # {}

\* the initial pass (line 83) is in progress or has returned to main, which
\* has not yet gone past line 85
InitialPass(pass) == pass.seq = 1 /\ pass.pc # "idle"

\* a pass the cron started (line 97)
ScheduledPass(pass) == pass.seq > 1

\* C22: in scheduled mode the initial pass has ended before the scheduler
\* is started. While the initial pass is in progress main is in its call
\* and no other pass exists; once the scheduler runs, the initial pass has
\* been started and has ended; a scheduled pass exists, or has existed,
\* only when the scheduler runs, so it never overlaps the initial pass.
C22_InitialPassEndsBeforeScheduler ==
    /\ mainPc = "scheduled" =>
           /\ ~once
           /\ started >= 1
           /\ \A p \in Passes : ~InitialPass(passes[p])
    /\ \A p \in Passes :
           InitialPass(passes[p]) =>
               /\ mainPc = "syncing"
               /\ started = 1
               /\ \A q \in Passes \ {p} : passes[q] = IdlePass
    /\ \A p \in Passes : ScheduledPass(passes[p]) => mainPc = "scheduled"
    /\ started > 1 => mainPc = "scheduled"

\* the scheduler runs after an initial pass that failed, and the first
\* scheduled pass is in progress
C22_Witness ==
    /\ mainPc = "scheduled"
    /\ started = 2
    /\ syncFailed
    /\ \E p \in Passes : ScheduledPass(passes[p]) /\ passes[p].pc = "loop"
====
